---- MODULE Spec2Model ----
(***************************************************************************)
(* Model of the course upload service: the authenticated /upload pipeline  *)
(* (analysis, persistence, response, detached QnA/flashcard enrichment),   *)
(* the owner-scoped read endpoints, and parseAIResponse.                   *)
(*                                                                         *)
(* A text is a sequence of lexical tokens.  The tokens are the pieces of   *)
(* text the code's regular expressions and JSON.parse tell apart.          *)
(***************************************************************************)
EXTENDS Integers, Sequences, FiniteSets, TLC

\* Longest reply body enumerated for the parser specification.
MaxLen == 4

FENCE == "FENCE"
LABEL == "json"
NL == "NL"
QUOTE == "Q"
DIGIT == "1"
NULLTOK == "null"
LBRACE == "{"
RBRACE == "}"
KEY == "courseTitle:"

\* The tokens a model reply is made of: a three-backtick fence, the fence
\* label, a line break, a double quote, a digit, the literal null, braces and
\* the member name "courseTitle" with its colon.
Alphabet == {FENCE, LABEL, NL, QUOTE, DIGIT, NULLTOK, LBRACE, RBRACE, KEY}

Texts == UNION {[1..n -> Alphabet] : n \in 0..MaxLen}

\* How a reply body is presented: bare, in a fenced block labelled json, or in an unlabelled fenced block.
Fences == {"none", "json", "plain"}

Wrap(f, body) ==
  CASE f = "json" -> <<FENCE, LABEL, NL>> \o body \o <<NL, FENCE>>
    [] f = "plain" -> <<FENCE, NL>> \o body \o <<NL, FENCE>>
    [] OTHER -> body

(***************************************************************************)
(* JSON.parse on token texts.  Values are null, numbers, strings and       *)
(* objects with at most the member courseTitle.                            *)
(***************************************************************************)
Undefined == [type |-> "undefined", n |-> 0, chars |-> <<>>, props |-> <<>>]
JsNull == [type |-> "null", n |-> 0, chars |-> <<>>, props |-> <<>>]
JsNumber(k) == [type |-> "number", n |-> k, chars |-> <<>>, props |-> <<>>]
JsString(cs) == [type |-> "string", n |-> 0, chars |-> cs, props |-> <<>>]
JsObject(ps) == [type |-> "object", n |-> 0, chars |-> <<>>, props |-> ps]

NoParse == [ok |-> FALSE, val |-> Undefined, next |-> 0]

\* Index of the first token at or after i that is not white space.
RECURSIVE SkipWs(_, _)
SkipWs(s, i) ==
  IF i <= Len(s) /\ s[i] = NL THEN SkipWs(s, i + 1) ELSE i

\* Index after the run of digits starting at i.
RECURSIVE DigitsEnd(_, _)
DigitsEnd(s, i) ==
  IF i <= Len(s) /\ s[i] = DIGIT THEN DigitsEnd(s, i + 1) ELSE i

\* The number written as k digits 1.
RECURSIVE Ones(_)
Ones(k) == IF k = 0 THEN 0 ELSE 10 * Ones(k - 1) + 1

\* Index of the quote closing the string opened before i, or 0: a string
\* holds no raw line break.
RECURSIVE StringEnd(_, _)
StringEnd(s, i) ==
  IF i > Len(s) \/ s[i] = NL THEN 0
  ELSE IF s[i] = QUOTE THEN i
  ELSE StringEnd(s, i + 1)

RECURSIVE ParseValue(_, _)
ParseValue(s, i) ==
  IF i > Len(s) THEN NoParse
  ELSE IF s[i] = NULLTOK THEN [ok |-> TRUE, val |-> JsNull, next |-> i + 1]
  ELSE IF s[i] = DIGIT THEN
    LET e == DigitsEnd(s, i)
    IN [ok |-> TRUE, val |-> JsNumber(Ones(e - i)), next |-> e]
  ELSE IF s[i] = QUOTE THEN
    LET e == StringEnd(s, i + 1)
    IN IF e = 0 THEN NoParse
       ELSE [ok |-> TRUE, val |-> JsString(SubSeq(s, i + 1, e - 1)), next |-> e + 1]
  ELSE IF s[i] = LBRACE THEN
    LET j == SkipWs(s, i + 1)
    IN IF j > Len(s) THEN NoParse
       ELSE IF s[j] = RBRACE
         THEN [ok |-> TRUE, val |-> JsObject(<<>>), next |-> j + 1]
       ELSE IF s[j] = KEY THEN
         LET v == ParseValue(s, SkipWs(s, j + 1))
             k == SkipWs(s, v.next)
         IN IF v.ok /\ k <= Len(s) /\ s[k] = RBRACE
              THEN [ok |-> TRUE, val |-> JsObject(<<v.val>>), next |-> k + 1]
              ELSE NoParse
       ELSE NoParse
  ELSE NoParse

\* JSON.parse: one value, white space around it, nothing else.
JSONparse(s) ==
  LET v == ParseValue(s, SkipWs(s, 1))
  IN IF v.ok /\ SkipWs(s, v.next) = Len(s) + 1
       THEN [ok |-> TRUE, val |-> v.val]
       ELSE [ok |-> FALSE, val |-> Undefined]

\* The decimal digits of a number written with the digit 1 alone.
RECURSIVE Digits(_)
Digits(k) == IF k < 10 THEN <<DIGIT>> ELSE Digits(k \div 10) \o <<DIGIT>>

\* JSON.stringify of a value JSON.parse returned.
RECURSIVE JSONstringify(_)
JSONstringify(v) ==
  CASE v.type = "null" -> <<NULLTOK>>
    [] v.type = "number" -> Digits(v.n)
    [] v.type = "string" -> <<QUOTE>> \o v.chars \o <<QUOTE>>
    [] v.type = "object" ->
         IF v.props = <<>> THEN <<LBRACE, RBRACE>>
         ELSE <<LBRACE, KEY>> \o JSONstringify(v.props[1]) \o <<RBRACE>>

(***************************************************************************)
(* String.prototype.match with <open>, a lazy capture, a line break and a   *)
(* fence: the leftmost                                                     *)
(* opening that has a closing line-break-and-fence after it, and the       *)
(* shortest capture from there.                                            *)
(***************************************************************************)
Closings(s, from) == {j \in from..(Len(s) - 1) : s[j] = NL /\ s[j + 1] = FENCE}

Openings(s, open) ==
  {i \in 1..Len(s) :
     /\ i + Len(open) - 1 <= Len(s)
     /\ SubSeq(s, i, i + Len(open) - 1) = open
     /\ Closings(s, i + Len(open)) # {}}

Min(S) == CHOOSE x \in S : \A y \in S : x <= y

Match(s, open) ==
  IF Openings(s, open) = {} THEN [matched |-> FALSE, group1 |-> <<>>]
  ELSE LET i == Min(Openings(s, open))
           j == Min(Closings(s, i + Len(open)))
       IN [matched |-> TRUE, group1 |-> SubSeq(s, i + Len(open), j - 1)]

ParseError == "Failed to parse AI response"

\* jsonMatch without the labelled pattern.
jsonMatchUnlabelledOnly(aiResponse) == Match(aiResponse, <<FENCE, NL>>)

\* The match of the labelled pattern, else of the unlabelled one.
jsonMatch(aiResponse) ==
  IF Match(aiResponse, <<FENCE, LABEL, NL>>).matched
    THEN Match(aiResponse, <<FENCE, LABEL, NL>>)
    ELSE Match(aiResponse, <<FENCE, NL>>)

jsonString(aiResponse) ==
  IF jsonMatch(aiResponse).matched THEN jsonMatch(aiResponse).group1 ELSE aiResponse

\* parseAIResponse with a catch that logs and returns instead of throwing.
parseAIResponseSwallows(aiResponse) ==
  IF JSONparse(jsonString(aiResponse)).ok
    THEN [ok |-> TRUE, value |-> JSONparse(jsonString(aiResponse)).val, error |-> ""]
    ELSE [ok |-> TRUE, value |-> Undefined, error |-> ""]

\* The outcome of parseAIResponse: the decoded value, or the one error thrown.
parseAIResponse(aiResponse) ==
  IF JSONparse(jsonString(aiResponse)).ok
    THEN [ok |-> TRUE, value |-> JSONparse(jsonString(aiResponse)).val, error |-> ""]
    ELSE [ok |-> FALSE, value |-> Undefined, error |-> ParseError]

NotCalled == [ok |-> FALSE, value |-> Undefined, error |-> "not called"]

(***************************************************************************)
(* Requests and their inputs.                                              *)
(***************************************************************************)
\* Number of upload requests the service receives.
MaxUploads == 2

Uploads == 1..MaxUploads

\* Authorization headers: absent, not verifiable, and one signed token for
\* each of two registered users.
NoToken == "(no header)"
BadToken == "garbage"
Tokens == {NoToken, BadToken, "jwtA", "jwtB"}

\* jwt.verify: the decoded payload's user id, or a throw.
jwtVerify(token) ==
  CASE token = "jwtA" -> [ok |-> TRUE, user |-> "A"]
    [] token = "jwtB" -> [ok |-> TRUE, user |-> "B"]
    [] OTHER -> [ok |-> FALSE, user |-> "(none)"]

\* What a call of the generative model ends with: a throw, or a reply text.
Throws == <<"(model call throws)">>
ModelError == "model unavailable"
Pending == <<"(pending)">>
AnalysisReplies ==
  { Wrap("json", <<LBRACE, NL, KEY, QUOTE, LABEL, QUOTE, RBRACE>>),
    <<NULLTOK>>,
    <<LBRACE, KEY>>,
    Throws }
QnaReplies == { Wrap("plain", <<LBRACE, NL, RBRACE>>), <<>> }
FlashReplies == { <<NL, DIGIT, DIGIT>>, Throws }

\* The value of an awaited generator call (analyzeFile, qna,
\* generateFlashcards) whose model call ended with reply.
Settled(reply) ==
  IF reply = Throws
    THEN [ok |-> FALSE, value |-> Undefined, error |-> ModelError]
    ELSE parseAIResponse(reply)

\* Settled, tabulated over the replies of the pipeline specification.
SettledTable ==
  [reply \in AnalysisReplies \cup QnaReplies \cup FlashReplies |-> Settled(reply)]
\* Generated with a failed call replaced by an empty object.
GeneratedLenient(reply) ==
  IF SettledTable[reply].ok THEN SettledTable[reply]
  ELSE [ok |-> TRUE, value |-> JsObject(<<>>), error |-> ""]

Generated(reply) == SettledTable[reply]

(***************************************************************************)
(* Course documents.                                                       *)
(***************************************************************************)
\* The schema default of qna and flashCard.
Loading == <<"loading">>

NoCourse ==
  [id |-> 0, title |-> Undefined, json |-> <<>>, qna |-> <<>>,
   flashCard |-> <<>>, user |-> "(none)"]

\* The member courseTitle of a decoded value.
courseTitle(v) ==
  IF v.type = "object" /\ v.props # <<>> THEN v.props[1] ELSE Undefined

\* The schema's cast of a title to String; an object does not cast.
Castable(t) == t.type # "object"
CastString(t) ==
  IF t.type = "number" THEN JsString(JSONstringify(t)) ELSE t

\* NewCourse with the title serialized in place of the whole result.
NewCourseTitleOnly(u, data, userId) ==
  [id |-> u, title |-> CastString(courseTitle(data)),
   json |-> JSONstringify(courseTitle(data)), qna |-> Loading, flashCard |-> Loading,
   user |-> userId]

\* new Course({title, json, user}) for upload u.
NewCourse(u, data, userId) ==
  [id |-> u, title |-> CastString(courseTitle(data)),
   json |-> JSONstringify(data), qna |-> Loading, flashCard |-> Loading,
   user |-> userId]

\* The handler's responses.
Response(status, msg) ==
  [status |-> status, msg |-> msg, courseId |-> 0, course |-> Undefined]
UploadOk(doc, data) ==
  [status |-> 200, msg |-> "File analyzed and saved successfully",
   courseId |-> doc.id, course |-> data]

\* The exchange of a read request (GET /courses, GET /courses/:id).
NoRead ==
  [route |-> "(none)", token |-> NoToken, id |-> 0, status |-> 0, msg |-> "",
   body |-> {}]
ReadResponse(route, token, id, status, msg, body) ==
  [route |-> route, token |-> token, id |-> id, status |-> status, msg |-> msg,
   body |-> body]

\* authOutcome with the token decoded but its signature not verified.
authOutcomeUnverified(token) ==
  IF token = NoToken THEN Response(401, "No token, authorization denied")
  ELSE Response(0, "next")

\* The auth middleware: the 401 it answers, or status 0 when it calls next().
authOutcome(token) ==
  IF token = NoToken THEN Response(401, "No token, authorization denied")
  ELSE IF ~jwtVerify(token).ok THEN Response(401, "Token is not valid")
  ELSE Response(0, "next")

VARIABLES replyBody, fence, parseOut,
          pc, req, courseData, course, qnaResult, db, res, modelCalls, read

pvars == <<replyBody, fence, parseOut>>
uvars == <<pc, req, courseData, course, qnaResult, db, res, modelCalls, read>>
vars == <<replyBody, fence, parseOut,
          pc, req, courseData, course, qnaResult, db, res, modelCalls, read>>

NoReq == [token |-> NoToken, file |-> FALSE]

InitUploads ==
  /\ pc = [u \in Uploads |-> "new"]
  /\ req = [u \in Uploads |-> NoReq]
  /\ courseData = [u \in Uploads |-> Undefined]
  /\ course = [u \in Uploads |-> NoCourse]
  /\ qnaResult = [u \in Uploads |-> Undefined]
  /\ db = {}
  /\ res = [u \in Uploads |-> <<>>]
  /\ modelCalls = [u \in Uploads |-> <<>>]
  /\ read = NoRead

Init ==
  /\ replyBody = <<>>
  /\ fence = "none"
  /\ parseOut = NotCalled
  /\ InitUploads

\* The user id the auth middleware put on the request.
UserOf(u) == jwtVerify(req[u].token).user

Send(u, r) == res' = [res EXCEPT ![u] = Append(@, r)]

\* A model call of upload u starts, and the last one started settles.
Call(u, kind, content) ==
  modelCalls' = [modelCalls EXCEPT ![u] =
                   Append(@, [kind |-> kind, content |-> content, reply |-> Pending])]
Settle(u, reply) ==
  modelCalls' = [modelCalls EXCEPT ![u][Len(modelCalls[u])].reply = reply]
SettleAndCall(u, reply, kind, content) ==
  modelCalls' = [modelCalls EXCEPT ![u] =
                   Append([@ EXCEPT ![Len(modelCalls[u])].reply = reply],
                          [kind |-> kind, content |-> content, reply |-> Pending])]

\* The catch of the /upload handler: the request is answered 500.
UploadCatch(u, message) ==
  /\ Send(u, Response(500, message))
  /\ pc' = [pc EXCEPT ![u] = "rejected"]

\* BackgroundCatch with the error thrown on to the catch of the handler.
BackgroundCatchRethrows(u) == UploadCatch(u, "Upload failed")

\* BackgroundCatch with the error answered to the caller as well.
BackgroundCatchResponds(u) ==
  /\ pc' = [pc EXCEPT ![u] = "EnrichmentFailed"]
  /\ Send(u, Response(500, "Upload failed"))

\* The catch of the detached function: the error is logged, nothing else.
BackgroundCatch(u) ==
  /\ pc' = [pc EXCEPT ![u] = "EnrichmentFailed"]
  /\ UNCHANGED res

\* The auth middleware on POST /upload: 401 without a verifiable token,
\* else next().
UploadAuth(u, token) ==
  /\ pc[u] = "new"
  /\ req' = [req EXCEPT ![u].token = token]
  /\ IF authOutcome(token).status = 401
       THEN /\ Send(u, authOutcome(token))
            /\ pc' = [pc EXCEPT ![u] = "rejected"]
       ELSE /\ pc' = [pc EXCEPT ![u] = "authed"]
            /\ UNCHANGED res
  /\ UNCHANGED <<courseData, course, qnaResult, db, modelCalls, read>>

\* UploadStart with the return after the 400 response missing.
UploadStartFallsThrough(u, file) ==
  /\ pc[u] = "authed"
  /\ req' = [req EXCEPT ![u].file = file]
  /\ IF ~file THEN Send(u, Response(400, "No file uploaded")) ELSE UNCHANGED res
  /\ Call(u, "analyzeFile", <<>>)
  /\ pc' = [pc EXCEPT ![u] = "analyzing"]
  /\ UNCHANGED <<courseData, course, qnaResult, db, read>>

\* upload.single("file") and the /upload handler up to its first await: 400
\* without a file, else the call of analyzeFile, which sends the file to the
\* model.
UploadStart(u, file) ==
  /\ pc[u] = "authed"
  /\ req' = [req EXCEPT ![u].file = file]
  /\ IF ~file
       THEN /\ Send(u, Response(400, "No file uploaded"))
            /\ pc' = [pc EXCEPT ![u] = "rejected"]
            /\ UNCHANGED modelCalls
       ELSE /\ Call(u, "analyzeFile", <<>>)
            /\ pc' = [pc EXCEPT ![u] = "analyzing"]
            /\ UNCHANGED res
  /\ UNCHANGED <<courseData, course, qnaResult, db, read>>

TypeErrorNull == "Cannot read properties of null (reading 'courseTitle')"

\* analyzeFile settles: on a throw, or on a null courseData, the outer catch
\* answers 500; else the Course is constructed and course.save() is called.
AnalyzeReturn(u, reply) ==
  /\ pc[u] = "analyzing"
  /\ Settle(u, reply)
  /\ LET r == Generated(reply)
     IN IF ~r.ok
          THEN /\ UploadCatch(u, r.error)
               /\ UNCHANGED <<courseData, course>>
          ELSE IF r.value.type = "null"
          THEN /\ UploadCatch(u, TypeErrorNull)
               /\ courseData' = [courseData EXCEPT ![u] = r.value]
               /\ UNCHANGED course
          ELSE /\ courseData' = [courseData EXCEPT ![u] = r.value]
               /\ course' = [course EXCEPT ![u] = NewCourse(u, r.value, UserOf(u))]
               /\ pc' = [pc EXCEPT ![u] = "saving"]
               /\ UNCHANGED res
  /\ UNCHANGED <<req, qnaResult, db, read>>

SaveError == "save failed"

\* Insert with the write lost.
InsertLost(store, doc) == store

\* Insert as an upsert on the user: the user's other documents are replaced.
InsertUpsertByUser(store, doc) == {d \in store : d.user # doc.user} \cup {doc}

\* The stored documents after doc is inserted.
Insert(store, doc) == store \cup {doc}

\* SaveReturn with the detached function started before the save settled.
SaveReturnDetachesFirst(u, stored) ==
  /\ pc[u] = "saving"
  /\ stored => Castable(courseTitle(courseData[u]))
  /\ Call(u, "qna", JSONstringify(courseData[u]))
  /\ IF stored
       THEN /\ db' = Insert(db, course[u])
            /\ Send(u, UploadOk(course[u], courseData[u]))
            /\ pc' = [pc EXCEPT ![u] = "qna"]
       ELSE /\ UploadCatch(u, SaveError)
            /\ UNCHANGED db
  /\ UNCHANGED <<req, courseData, course, qnaResult, read>>

\* The first course.save() settles.  It rejects when the store fails or the
\* title does not cast, and the outer catch answers 500.  Else the document
\* is inserted, the success response is sent, and the detached function
\* starts and runs to its first await, the model call of qna().
SaveReturn(u, stored) ==
  /\ pc[u] = "saving"
  /\ stored => Castable(courseTitle(courseData[u]))
  /\ IF stored
       THEN /\ db' = Insert(db, course[u])
            /\ Send(u, UploadOk(course[u], courseData[u]))
            /\ Call(u, "qna", JSONstringify(courseData[u]))
            /\ pc' = [pc EXCEPT ![u] = "qna"]
       ELSE /\ UploadCatch(u, SaveError)
            /\ UNCHANGED <<db, modelCalls>>
  /\ UNCHANGED <<req, courseData, course, qnaResult, read>>

\* QnaReturn with qna() called again after it failed.
QnaReturnRetries(u, reply) ==
  /\ pc[u] = "qna"
  /\ LET r == Generated(reply)
     IN IF ~r.ok
          THEN /\ SettleAndCall(u, reply, "qna", JSONstringify(courseData[u]))
               /\ UNCHANGED <<qnaResult, pc, res>>
          ELSE /\ qnaResult' = [qnaResult EXCEPT ![u] = r.value]
               /\ SettleAndCall(u, reply, "generateFlashcards",
                                JSONstringify(courseData[u]))
               /\ pc' = [pc EXCEPT ![u] = "flashcards"]
               /\ UNCHANGED res
  /\ UNCHANGED <<req, courseData, course, db, read>>

\* QnaReturn with generateFlashcards() called whatever qna() ended with.
QnaReturnAttemptsBoth(u, reply) ==
  /\ pc[u] = "qna"
  /\ qnaResult' = [qnaResult EXCEPT ![u] = Generated(reply).value]
  /\ SettleAndCall(u, reply, "generateFlashcards", JSONstringify(courseData[u]))
  /\ pc' = [pc EXCEPT ![u] = "flashcards"]
  /\ UNCHANGED <<req, courseData, course, db, res, read>>

\* qna() settles: a throw goes to the detached function's catch; else
\* generateFlashcards() is called.
QnaReturn(u, reply) ==
  /\ pc[u] = "qna"
  /\ LET r == Generated(reply)
     IN IF ~r.ok
          THEN /\ BackgroundCatch(u)
               /\ Settle(u, reply)
               /\ UNCHANGED qnaResult
          ELSE /\ qnaResult' = [qnaResult EXCEPT ![u] = r.value]
               /\ SettleAndCall(u, reply, "generateFlashcards",
                                JSONstringify(courseData[u]))
               /\ pc' = [pc EXCEPT ![u] = "flashcards"]
               /\ UNCHANGED res
  /\ UNCHANGED <<req, courseData, course, db, read>>

\* generateFlashcards() settles: a throw goes to the catch; else both
\* fields are set on the document and course.save() is called.
FlashcardsReturn(u, reply) ==
  /\ pc[u] = "flashcards"
  /\ Settle(u, reply)
  /\ LET r == Generated(reply)
     IN IF ~r.ok
          THEN /\ BackgroundCatch(u)
               /\ UNCHANGED course
          ELSE /\ course' = [course EXCEPT ![u].qna = JSONstringify(qnaResult[u]),
                                            ![u].flashCard = JSONstringify(r.value)]
               /\ pc' = [pc EXCEPT ![u] = "bgSaving"]
               /\ UNCHANGED res
  /\ UNCHANGED <<req, courseData, qnaResult, db, read>>

\* UpdateFields with only the path qna written.
UpdateFieldsQnaOnly(store, doc) ==
  {IF d.id = doc.id THEN [d EXCEPT !.qna = doc.qna] ELSE d : d \in store}

\* UpdateFields with only the path flashCard written.
UpdateFieldsFlashCardOnly(store, doc) ==
  {IF d.id = doc.id THEN [d EXCEPT !.flashCard = doc.flashCard] ELSE d : d \in store}

\* UpdateFields with the QnA result written to the path json as well.
UpdateFieldsOverwritesContent(store, doc) ==
  {IF d.id = doc.id
     THEN [d EXCEPT !.json = doc.qna, !.qna = doc.qna, !.flashCard = doc.flashCard]
     ELSE d : d \in store}

\* UpdateFields as an update of every document, with no filter on the id.
UpdateFieldsAllDocs(store, doc) ==
  {[d EXCEPT !.qna = doc.qna, !.flashCard = doc.flashCard] : d \in store}

\* The stored documents after the modified paths qna and flashCard of doc
\* are written to the document with its id.
UpdateFields(store, doc) ==
  {IF d.id = doc.id THEN [d EXCEPT !.qna = doc.qna, !.flashCard = doc.flashCard] ELSE d :
     d \in store}

\* The second course.save() settles: one update of both fields, or a
\* rejection that goes to the catch.
BgSaveReturn(u, stored) ==
  /\ pc[u] = "bgSaving"
  /\ IF stored
       THEN /\ db' = UpdateFields(db, course[u])
            /\ pc' = [pc EXCEPT ![u] = "Enriched"]
            /\ UNCHANGED res
       ELSE /\ BackgroundCatch(u)
            /\ UNCHANGED db
  /\ UNCHANGED <<req, courseData, course, qnaResult, modelCalls, read>>

\* Course.find({user}).select("title _id").
find(store, userId) == {d \in store : d.user = userId}
select(docs) == {[id |-> d.id, title |-> d.title] : d \in docs}

\* findOne with the filter on _id alone.
findOneById(store, id, userId) == {d \in store : d.id = id}

\* Course.findOne({_id, user}): the matching documents, at most one.
findOne(store, id, userId) == {d \in store : d.id = id /\ d.user = userId}

\* GET /courses, from the request to its response: the ids and titles of
\* the caller's documents, or 500 when the query rejects.
listCourses(token, queried) ==
  /\ read' =
       IF authOutcome(token).status = 401
         THEN ReadResponse("/courses", token, 0, 401, authOutcome(token).msg, {})
       ELSE IF ~queried
         THEN ReadResponse("/courses", token, 0, 500, "Failed to fetch courses", {})
       ELSE ReadResponse("/courses", token, 0, 200, "",
                         select(find(db, jwtVerify(token).user)))
  /\ UNCHANGED <<pc, req, courseData, course, qnaResult, db, res, modelCalls>>

\* getCourse answered from the handler's in-memory document, not the store.
getCourseFromMemory(token, id, queried) ==
  /\ read' =
       IF authOutcome(token).status = 401
         THEN ReadResponse("/courses/:id", token, id, 401, authOutcome(token).msg, {})
       ELSE IF ~queried
         THEN ReadResponse("/courses/:id", token, id, 500, "Failed to fetch course", {})
       ELSE IF findOne(db, id, jwtVerify(token).user) = {}
         THEN ReadResponse("/courses/:id", token, id, 404, "Course not found", {})
       ELSE ReadResponse("/courses/:id", token, id, 200, "", {course[id]})
  /\ UNCHANGED <<pc, req, courseData, course, qnaResult, db, res, modelCalls>>

\* GET /courses/:id, from the request to its response: the caller's document
\* with that id, 404 when there is none, or 500 when the query rejects.
getCourse(token, id, queried) ==
  /\ read' =
       IF authOutcome(token).status = 401
         THEN ReadResponse("/courses/:id", token, id, 401, authOutcome(token).msg, {})
       ELSE IF ~queried
         THEN ReadResponse("/courses/:id", token, id, 500, "Failed to fetch course", {})
       ELSE IF findOne(db, id, jwtVerify(token).user) = {}
         THEN ReadResponse("/courses/:id", token, id, 404, "Course not found", {})
       ELSE ReadResponse("/courses/:id", token, id, 200, "",
                         findOne(db, id, jwtVerify(token).user))
  /\ UNCHANGED <<pc, req, courseData, course, qnaResult, db, res, modelCalls>>

\* The client has the read response; the exchange is over.
ReadEnd ==
  /\ read' = NoRead
  /\ UNCHANGED <<pc, req, courseData, course, qnaResult, db, res, modelCalls>>

\* A read exchange is one step of the store, and its response is observed
\* before the next event is handled.
Next ==
  \/ read # NoRead /\ ReadEnd /\ UNCHANGED pvars
  \/ read = NoRead /\ \E token \in Tokens, queried \in BOOLEAN :
       listCourses(token, queried) /\ UNCHANGED pvars
  \/ read = NoRead /\ \E token \in Tokens, id \in Uploads, queried \in BOOLEAN :
       getCourse(token, id, queried) /\ UNCHANGED pvars
  \/ read = NoRead /\ \E u \in Uploads, token \in Tokens :
       UploadAuth(u, token) /\ UNCHANGED pvars
  \/ read = NoRead /\ \E u \in Uploads, file \in BOOLEAN :
       UploadStart(u, file) /\ UNCHANGED pvars
  \/ read = NoRead /\ \E u \in Uploads, reply \in AnalysisReplies :
       AnalyzeReturn(u, reply) /\ UNCHANGED pvars
  \/ read = NoRead /\ \E u \in Uploads, stored \in BOOLEAN : SaveReturn(u, stored) /\ UNCHANGED pvars
  \/ read = NoRead /\ \E u \in Uploads, reply \in QnaReplies : QnaReturn(u, reply) /\ UNCHANGED pvars
  \/ read = NoRead /\ \E u \in Uploads, reply \in FlashReplies :
       FlashcardsReturn(u, reply) /\ UNCHANGED pvars
  \/ read = NoRead /\ \E u \in Uploads, stored \in BOOLEAN : BgSaveReturn(u, stored) /\ UNCHANGED pvars

Spec == Init /\ [][Next]_vars

\* The steps of the /upload requests alone.  The read handlers leave every
\* variable of the uploads as it is (UNCHANGED pvars and uvars in Next) and
\* run beside the detached functions without holding them up.
NextUpload ==
  \/ \E u \in Uploads, token \in Tokens : UploadAuth(u, token) /\ UNCHANGED pvars
  \/ \E u \in Uploads, file \in BOOLEAN : UploadStart(u, file) /\ UNCHANGED pvars
  \/ \E u \in Uploads, reply \in AnalysisReplies :
       AnalyzeReturn(u, reply) /\ UNCHANGED pvars
  \/ \E u \in Uploads, stored \in BOOLEAN : SaveReturn(u, stored) /\ UNCHANGED pvars
  \/ \E u \in Uploads, reply \in QnaReplies : QnaReturn(u, reply) /\ UNCHANGED pvars
  \/ \E u \in Uploads, reply \in FlashReplies :
       FlashcardsReturn(u, reply) /\ UNCHANGED pvars
  \/ \E u \in Uploads, stored \in BOOLEAN : BgSaveReturn(u, stored) /\ UNCHANGED pvars

\* The await the detached function of upload u is suspended on settles.
Enrich(u) ==
  /\ \/ \E reply \in QnaReplies : QnaReturn(u, reply)
     \/ \E reply \in FlashReplies : FlashcardsReturn(u, reply)
     \/ \E stored \in BOOLEAN : BgSaveReturn(u, stored)
  /\ UNCHANGED pvars

\* Every promise a detached function awaits (two model calls, one save)
\* settles, and the event loop then runs the continuation.
SpecFair == Init /\ [][NextUpload]_vars /\ \A u \in Uploads : WF_vars(Enrich(u))

InitParser ==
  /\ replyBody \in Texts
  /\ fence \in Fences
  /\ parseOut = NotCalled
  /\ InitUploads

\* One call of parseAIResponse on the reply.
CallParse ==
  /\ parseOut = NotCalled
  /\ parseOut' = parseAIResponse(Wrap(fence, replyBody))
  /\ UNCHANGED <<replyBody, fence>>
  /\ UNCHANGED uvars

NextParser == CallParse

SpecParser == InitParser /\ [][NextParser]_vars

(***************************************************************************)
(* Properties.                                                             *)
(***************************************************************************)
DocsOf(u) == {d \in db : d.id = u}
Statuses(u) == {res[u][i].status : i \in 1..Len(res[u])}
Attempted(u, kind) == \E i \in 1..Len(modelCalls[u]) : modelCalls[u][i].kind = kind
ReplyTo(u, kind) ==
  (CHOOSE c \in {modelCalls[u][i] : i \in 1..Len(modelCalls[u])} : c.kind = kind).reply
Answered(u, kind) == Attempted(u, kind) /\ ReplyTo(u, kind) # Pending
Outcome(u, kind) == SettledTable[ReplyTo(u, kind)]
Failed(u, kind) == Answered(u, kind) /\ ~Outcome(u, kind).ok
Succeeded(u, kind) == Answered(u, kind) /\ Outcome(u, kind).ok
BackgroundDone(u) == pc[u] \in {"Enriched", "EnrichmentFailed"}

\* C1: an upload whose analysis failed (the model call threw, or the reply
\* did not parse) is answered with the one failure response, the step that
\* ends the request leaves the stored documents as they were, and no
\* document of that upload is ever stored or listed for its owner.
C1_FailedAnalysisStoresNothing ==
  /\ [](\A u \in Uploads : Failed(u, "analyzeFile") =>
          /\ pc[u] = "rejected"
          /\ res[u] = <<Response(500, Outcome(u, "analyzeFile").error)>>
          /\ DocsOf(u) = {}
          /\ \A item \in select(find(db, UserOf(u))) : item.id # u)
  /\ [][\A u \in Uploads :
          (pc[u] = "analyzing" /\ pc'[u] = "rejected") => db' = db]_vars

\* Upload u failed on a reply that does not parse while its owner has a
\* stored document of another upload.
C1_Witness ==
  \E u \in Uploads :
    /\ Failed(u, "analyzeFile")
    /\ ReplyTo(u, "analyzeFile") = <<LBRACE, KEY>>
    /\ find(db, UserOf(u)) # {}

\* C2: a success response names a document that is stored, with the id and
\* the content the response carries; an upload whose save rejected has the
\* 500 response as its only response and no stored document.
C2_SuccessOnlyAfterPersisted ==
  \A u \in Uploads :
    /\ \A i \in 1..Len(res[u]) : res[u][i].status = 200 =>
         \E d \in db : /\ d.id = u
                       /\ d.id = res[u][i].courseId
                       /\ d.json = JSONstringify(res[u][i].course)
    /\ (pc[u] = "rejected" /\ course[u] # NoCourse) =>
         /\ res[u] = <<Response(500, SaveError)>>
         /\ DocsOf(u) = {}

\* One upload has its success response, another one's save rejected.
C2_Witness ==
  \E u, v \in Uploads :
    /\ 200 \in Statuses(u)
    /\ pc[v] = "rejected" /\ course[v] # NoCourse

\* C3: a stored document holds the serialized analysis result of its
\* upload and the id of the authenticated caller, and its qna and flashCard
\* are "loading" until the detached function's save has written them.
C3_CreatedRecord ==
  \A d \in db :
    /\ Succeeded(d.id, "analyzeFile")
    /\ d.json = JSONstringify(Outcome(d.id, "analyzeFile").value)
    /\ d.user = jwtVerify(req[d.id].token).user
    /\ jwtVerify(req[d.id].token).ok
    /\ pc[d.id] # "Enriched" => (d.qna = Loading /\ d.flashCard = Loading)

\* The detached function has set both fields on its document and the save
\* is in flight: the stored document still reads "loading".
C3_Witness ==
  \E u \in Uploads :
    /\ pc[u] = "bgSaving"
    /\ course[u].qna # Loading
    /\ \E d \in db : d.id = u /\ d.qna = Loading /\ d.flashCard = Loading

\* C4: when the detached function has ended well, the stored qna is the
\* serialized QnA result and the stored flashCard the serialized flashcard
\* result, and both generators were given the document's own content.
C4_EnrichedFields ==
  \A u \in Uploads : pc[u] = "Enriched" =>
    \E d \in db :
      /\ d.id = u
      /\ Succeeded(u, "qna") /\ Succeeded(u, "generateFlashcards")
      /\ d.qna = JSONstringify(Outcome(u, "qna").value)
      /\ d.flashCard = JSONstringify(Outcome(u, "generateFlashcards").value)
      /\ \A i \in 1..Len(modelCalls[u]) :
           modelCalls[u][i].kind # "analyzeFile" => modelCalls[u][i].content = d.json

C4_Witness ==
  \E u \in Uploads, d \in db :
    pc[u] = "Enriched" /\ d.id = u /\ d.qna # Loading /\ d.flashCard # Loading

\* C5 as stated: a detached function that has ended has attempted both
\* derivations.
C5_BothAttempted ==
  \A u \in Uploads : BackgroundDone(u) =>
    (Attempted(u, "qna") /\ Attempted(u, "generateFlashcards"))

\* C5 amended: a detached function that has ended has attempted the QnA
\* derivation; the flashcard derivation is attempted exactly when the QnA
\* derivation succeeded, and never before; the function ends well only
\* after both.
C5_FlashcardsOnlyAfterQna ==
  \A u \in Uploads :
    /\ Attempted(u, "generateFlashcards") => Succeeded(u, "qna")
    /\ BackgroundDone(u) =>
         /\ Answered(u, "qna")
         /\ Attempted(u, "generateFlashcards") <=> Succeeded(u, "qna")
    /\ pc[u] = "Enriched" =>
         (Succeeded(u, "qna") /\ Succeeded(u, "generateFlashcards"))

\* The QnA derivation failed and the function ended with the flashcard
\* derivation never attempted.
C5_Witness ==
  \E u \in Uploads :
    /\ pc[u] = "EnrichmentFailed"
    /\ Failed(u, "qna")
    /\ ~Attempted(u, "generateFlashcards")

\* C6: after a failure in the detached function the caller has exactly the
\* success response of the upload, and the stored qna and flashCard are
\* "loading".
C6_BackgroundFailureAbsorbed ==
  \A u \in Uploads : pc[u] = "EnrichmentFailed" =>
    /\ res[u] = <<UploadOk(NewCourse(u, courseData[u], UserOf(u)), courseData[u])>>
    /\ \E d \in db : d.id = u /\ d.qna = Loading /\ d.flashCard = Loading

\* The flashcard derivation failed after the QnA derivation succeeded.
C6_Witness ==
  \E u \in Uploads :
    /\ pc[u] = "EnrichmentFailed"
    /\ Succeeded(u, "qna")
    /\ Failed(u, "generateFlashcards")

\* C7: a listing holds only documents whose upload was the caller's, and a
\* fetch by id of a stored document that another user uploaded carries no
\* document and is answered 404 (500 when the query itself rejected).
C7_ReadsOwnerScoped ==
  LET caller == jwtVerify(read.token).user
  IN /\ read.status = 200 => \A item \in read.body : UserOf(item.id) = caller
     /\ (/\ read.route = "/courses/:id"
         /\ jwtVerify(read.token).ok
         /\ \E d \in db : d.id = read.id /\ UserOf(d.id) # caller)
        => /\ read.body = {}
           /\ read.status \in {404, 500}
           /\ read.status = 500 => read.msg = "Failed to fetch course"

\* A user fetched the id of a stored document of the other user: 404.
C7_Witness ==
  /\ read.route = "/courses/:id"
  /\ read.status = 404
  /\ jwtVerify(read.token).ok
  /\ \E d \in db : d.id = read.id /\ d.user # jwtVerify(read.token).user

\* C8: a request without a verifiable token is answered 401 and nothing
\* else: an upload makes no model call, constructs and stores no document
\* and starts no detached function; a read carries no document.
C8_UnauthorizedRejected ==
  /\ \A u \in Uploads : (pc[u] # "new" /\ ~jwtVerify(req[u].token).ok) =>
       /\ pc[u] = "rejected"
       /\ Statuses(u) = {401} /\ Len(res[u]) = 1
       /\ modelCalls[u] = <<>>
       /\ course[u] = NoCourse
       /\ DocsOf(u) = {}
  /\ (read # NoRead /\ ~jwtVerify(read.token).ok) =>
       (read.status = 401 /\ read.body = {})

\* An upload with a token that does not verify was rejected while a stored
\* document exists.
C8_Witness ==
  \E u \in Uploads :
    /\ req[u].token = BadToken
    /\ pc[u] = "rejected"
    /\ db # {}

\* C9: for a reply body that JSON.parse decodes, parseAIResponse of the
\* body in a fenced block, labelled json or unlabelled, returns the value
\* it returns for the bare body, which is the value the body decodes to.
C9_FenceIsNoOp ==
  (parseOut # NotCalled /\ fence # "none" /\ JSONparse(replyBody).ok) =>
    /\ parseOut = parseAIResponse(replyBody)
    /\ parseOut.ok
    /\ parseOut.value = JSONparse(replyBody).val

\* An object with a title, in a block labelled json, was parsed.
C9_Witness ==
  /\ parseOut.ok
  /\ fence = "json"
  /\ replyBody = <<LBRACE, KEY, DIGIT, RBRACE>>

C11_IdOwnerContentImmutable ==
  [][\A d \in db :
       /\ \E e \in db' : e.id = d.id /\ e.user = d.user /\ e.json = d.json
       /\ \A e \in db' : e.id = d.id => (e.user = d.user /\ e.json = d.json)]_vars

\* The detached function's save has written a document, another document
\* is stored, and the first still holds the content of its upload.
C11_Witness ==
  \E d, e \in db :
    /\ d.id # e.id
    /\ pc[d.id] = "Enriched"
    /\ d.qna # Loading
    /\ d.json = JSONstringify(courseData[d.id])

\* C12: after creation a stored qna or flashCard changes only from
\* "loading" to another value, in the step that ends the detached function
\* well; that step is the only write after the creation, and once the
\* detached function has ended its state and its document do not change.
C12_FieldsWrittenOnceMore ==
  [][\A u \in Uploads :
       /\ BackgroundDone(u) =>
            (pc'[u] = pc[u] /\ {d \in db' : d.id = u} = {d \in db : d.id = u})
       /\ \A d \in db, e \in db' : (d.id = u /\ e.id = u) =>
            /\ e.qna # d.qna =>
                 (d.qna = Loading /\ pc[u] = "bgSaving" /\ pc'[u] = "Enriched")
            /\ e.flashCard # d.flashCard =>
                 (d.flashCard = Loading /\ pc[u] = "bgSaving" /\ pc'[u] = "Enriched")]_vars

\* One detached function ended in failure with its document at "loading",
\* and another one's save has written its document.
C12_Witness ==
  \E d, e \in db :
    /\ pc[d.id] = "EnrichmentFailed" /\ d.qna = Loading /\ d.flashCard = Loading
    /\ pc[e.id] = "Enriched" /\ e.qna # Loading /\ e.flashCard # Loading

\* C13: a fetch that is answered 200 carries a stored document whose qna is
\* "loading" or the serialized QnA result and whose flashCard is "loading"
\* or the serialized flashcard result; a fetch by the owner between the
\* first save and the detached function's write is answered with the
\* document (unless the query rejects) and carries "loading" for both.
C13_FetchSeesLoadingOrComplete ==
  (read.route = "/courses/:id" /\ jwtVerify(read.token).ok) =>
    /\ read.status = 200 =>
         \A d \in read.body :
           /\ d \in db /\ d.id = read.id
           /\ d.qna = Loading \/
                (Succeeded(d.id, "qna") /\ d.qna = JSONstringify(Outcome(d.id, "qna").value))
           /\ d.flashCard = Loading \/
                (/\ Succeeded(d.id, "generateFlashcards")
                 /\ d.flashCard = JSONstringify(Outcome(d.id, "generateFlashcards").value))
    /\ (/\ pc[read.id] \in {"qna", "flashcards", "bgSaving"}
        /\ UserOf(read.id) = jwtVerify(read.token).user)
       => /\ read.status \in {200, 500}
          /\ read.status = 200 =>
               (/\ read.body # {}
                /\ \A d \in read.body : d.qna = Loading /\ d.flashCard = Loading)

\* The owner fetched the document while the detached function's save was in
\* flight, and read "loading".
C13_Witness ==
  /\ read.route = "/courses/:id"
  /\ read.status = 200
  /\ pc[read.id] = "bgSaving"
  /\ course[read.id].qna # Loading
  /\ \E d \in read.body : d.qna = Loading

\* C14: an upload makes at most one analysis call, one QnA call and one
\* flashcard call, whatever each ended with.
C14_NoRetries ==
  \A u \in Uploads :
    \A kind \in {"analyzeFile", "qna", "generateFlashcards"} :
      Cardinality({i \in 1..Len(modelCalls[u]) : modelCalls[u][i].kind = kind}) <= 1

\* Every kind of call has failed once in some upload without being made again.
C14_Witness ==
  \E u, v \in Uploads :
    /\ pc[u] = "rejected" /\ Failed(u, "analyzeFile") /\ Len(modelCalls[u]) = 1
    /\ pc[v] = "EnrichmentFailed" /\ Failed(v, "qna") /\ Len(modelCalls[v]) = 2

\* C15: an upload whose detached function has started (a QnA or flashcard
\* call was made) has its document stored and its success response sent; an
\* upload that was rejected made no such call.
C15_DetachedAfterResponse ==
  \A u \in Uploads :
    /\ (Attempted(u, "qna") \/ Attempted(u, "generateFlashcards")) =>
         (DocsOf(u) # {} /\ res[u] # <<>> /\ res[u][1].status = 200)
    /\ pc[u] = "rejected" =>
         (~Attempted(u, "qna") /\ ~Attempted(u, "generateFlashcards"))
    /\ pc[u] \in {"qna", "flashcards", "bgSaving", "Enriched", "EnrichmentFailed"} =>
         Attempted(u, "qna")

\* One upload's save rejected, and another's detached function has started.
C15_Witness ==
  \E u, v \in Uploads :
    /\ pc[u] = "rejected" /\ course[u] # NoCourse /\ Len(modelCalls[u]) = 1
    /\ pc[v] = "qna" /\ Attempted(v, "qna")

\* C16: when the awaited calls settle, a detached function that has
\* started ends, Enriched or EnrichmentFailed; until then no step takes it
\* out of its course (first the QnA call, then the flashcard call, then
\* the save), and once ended it stays where it ended.
C16_DetachedTerminates ==
  /\ \A u \in Uploads :
       (pc[u] \in {"qna", "flashcards", "bgSaving"}) ~> BackgroundDone(u)
  /\ [][\A u \in Uploads :
          /\ pc[u] = "qna" => pc'[u] \in {"qna", "flashcards", "EnrichmentFailed"}
          /\ pc[u] = "flashcards" =>
               pc'[u] \in {"flashcards", "bgSaving", "EnrichmentFailed"}
          /\ pc[u] = "bgSaving" => pc'[u] \in {"bgSaving", "Enriched", "EnrichmentFailed"}
          /\ BackgroundDone(u) => pc'[u] = pc[u]]_vars

\* Every detached function has ended, one well and one in failure at its
\* save.
C16_Witness ==
  /\ \A u \in Uploads : BackgroundDone(u)
  /\ \E u, v \in Uploads :
       /\ pc[u] = "Enriched"
       /\ pc[v] = "EnrichmentFailed" /\ Succeeded(v, "generateFlashcards")

\* C17: a step of one upload leaves every stored document of another
\* upload, and the other upload's state, as they were.
C17_UploadsIndependent ==
  [][\A u \in Uploads : pc'[u] # pc[u] =>
       /\ \A d \in db : d.id # u => d \in db'
       /\ \A e \in db' : e.id # u => e \in db
       /\ \A v \in Uploads \ {u} :
            /\ pc'[v] = pc[v]
            /\ course'[v] = course[v]
            /\ res'[v] = res[v]
            /\ modelCalls'[v] = modelCalls[v]]_vars

\* Two uploads of one user are in flight with both documents stored; one
\* detached function has written its document, the other's has not.
C17_Witness ==
  \E d, e \in db :
    /\ d.id # e.id /\ d.user = e.user
    /\ pc[d.id] = "Enriched" /\ d.qna # Loading
    /\ pc[e.id] = "flashcards" /\ e.qna = Loading

\* C18: in every stored document, and in every document a fetch carries,
\* qna and flashCard are both "loading" or both written; a QnA result whose
\* flashcard derivation failed is not stored.
C18_BothOrNeither ==
  /\ \A d \in db \cup (IF read.route = "/courses/:id" THEN read.body ELSE {}) :
       (d.qna = Loading) <=> (d.flashCard = Loading)
  /\ \A u \in Uploads : Failed(u, "generateFlashcards") =>
       \A d \in DocsOf(u) : d.qna = Loading /\ qnaResult[u] # Undefined

\* A fetch carried a written document; in another upload the flashcard
\* derivation failed after the QnA derivation succeeded.
C18_Witness ==
  /\ read.route = "/courses/:id" /\ read.status = 200
  /\ \E d \in read.body : d.qna # Loading /\ d.flashCard # Loading
  /\ \E u \in Uploads : Failed(u, "generateFlashcards") /\ Succeeded(u, "qna")

\* C19: an upload request that passed auth has no response while the
\* handler is awaiting, and exactly one (400, 500 or 200) from then on,
\* whatever the detached function ends with.
C19_ExactlyOneResponse ==
  \A u \in Uploads : jwtVerify(req[u].token).ok =>
    /\ pc[u] \in {"new", "authed", "analyzing", "saving"} => res[u] = <<>>
    /\ pc[u] = "rejected" => (Len(res[u]) = 1 /\ res[u][1].status \in {400, 500})
    /\ pc[u] \in {"qna", "flashcards", "bgSaving", "Enriched", "EnrichmentFailed"} =>
         (Len(res[u]) = 1 /\ res[u][1].status = 200)

\* The detached function's save rejected after the success response.
C19_Witness ==
  \E u \in Uploads :
    /\ pc[u] = "EnrichmentFailed"
    /\ Succeeded(u, "generateFlashcards")
    /\ Len(res[u]) = 1

\* C20: an authenticated upload without a file is answered 400 and nothing
\* else: no model call, no document constructed or stored, no detached
\* function.
C20_NoFileRejected ==
  \A u \in Uploads :
    (pc[u] \notin {"new", "authed"} /\ jwtVerify(req[u].token).ok /\ ~req[u].file) =>
      /\ pc[u] = "rejected"
      /\ res[u] = <<Response(400, "No file uploaded")>>
      /\ modelCalls[u] = <<>>
      /\ course[u] = NoCourse
      /\ DocsOf(u) = {}

\* An upload without a file was rejected while a document is stored.
C20_Witness ==
  \E u \in Uploads :
    /\ pc[u] = "rejected"
    /\ jwtVerify(req[u].token).ok
    /\ ~req[u].file
    /\ db # {}

====
